---- MODULE Spec2Model ----
(***************************************************************************)
(* Mimir tracker (apps/Tracker): a UDP service that stores signed          *)
(* (identity, address) registrations in the SQLite table "clients" and     *)
(* answers resolve queries with the rows that have not expired.            *)
(*                                                                         *)
(* Sources: src/apps/Tracker/src/{functions,storage,server,main}.rs        *)
(***************************************************************************)
EXTENDS Integers, Sequences, FiniteSets, Bags, TLC

(***************************************************************************)
(* Bounds of the model                                                     *)
(***************************************************************************)
\* clock value (seconds since the epoch) at which the service starts
StartTime == 1000000
\* the clock is followed for this many seconds after StartTime
MaxElapsed == 86401

(***************************************************************************)
(* Program constants                                                       *)
(***************************************************************************)
DEFAULT_PORT == 5050
DEFAULT_TTL == 86400
\* "return 300" of save_new_address / update_address
DEGRADED_TTL == 300
\* "ttl: 30" of the Addr built by select_addresses
RESOLVE_TTL == 30
\* let mut buf = [0u8; 1024]; let mut response = [0u8; 1024];
BUF_SIZE == 1024

\* The value SQLite stores for a parameter of a statement that nothing was
\* bound to.  Every value the program binds is >= 0.
NULL == -1

(***************************************************************************)
(* Values carried by datagrams                                             *)
(***************************************************************************)
\* 32-byte identities that decode to an Ed25519 public key
GoodKeys == {"idA", "idB"}
\* a 32-byte identity that is not the encoding of a curve point
BadKey == "idBad"
Identities == GoodKeys \cup {BadKey}
Addresses == {"ip1", "ip2"}
\* (port, priority) pairs a client announces
Endpoints == {<<DEFAULT_PORT, 0>>, <<6060, 1>>}
Clients == {1, 2}
Nonces == {7, 2147483647}
Peers == {"peer1", "peer2"}

\* The signature the holder of the private key of k produces over msg.
\* Ed25519 signing is deterministic, so it is a function of (k, msg).
Sign(k, msg) == <<"sig", k, msg>>
\* Another signature of k over msg that verifies: the one a signer makes
\* with a nonce of its own choice instead of the derived one.
Resign(k, msg) == <<"sig2", k, msg>>
\* 64 bytes that Signature::from_bytes rejects (high bits of the scalar set)
BadSig == <<"sig", "malformed", "malformed">>
\* The signatures that exist: idA signed both addresses, idB signed ip1
\* twice.
Signatures == {Sign("idA", "ip1"), Sign("idA", "ip2"), Sign("idB", "ip1"),
               Resign("idB", "ip1"), BadSig}

(***************************************************************************)
(* functions.rs                                                            *)
(***************************************************************************)
\* PublicKey::from_bytes(..) is Ok: the bytes decompress to a curve point
PublicKey_from_bytes(public_key) == public_key \in GoodKeys
\* Signature::from_bytes(..) is Ok
Signature_from_bytes(signature) == signature # BadSig
\* public_key.verify(&data, &signature).is_ok()
verify(public_key, data, signature) ==
    signature \in {Sign(public_key, data), Resign(public_key, data)}

\* check_signature with the result of verify discarded
check_signature_accepts(public_key, signature, data) ==
    IF ~PublicKey_from_bytes(public_key) THEN "panic"
    ELSE IF ~Signature_from_bytes(signature) THEN "panic"
    ELSE "true"

\* check_signature that verifies over some address, not over data
check_signature_unbound(public_key, signature, data) ==
    IF ~PublicKey_from_bytes(public_key) THEN "panic"
    ELSE IF ~Signature_from_bytes(signature) THEN "panic"
    ELSE IF \E a \in Addresses : verify(public_key, a, signature)
         THEN "true" ELSE "false"

\* check_signature: "true" / "false", or "panic" when an unwrap() hits an Err
check_signature(public_key, signature, data) ==
    IF ~PublicKey_from_bytes(public_key) THEN "panic"
    ELSE IF ~Signature_from_bytes(signature) THEN "panic"
    ELSE IF verify(public_key, data, signature) THEN "true"
    ELSE "false"

(***************************************************************************)
(* storage.rs.  The table is a bag of rows: SQL_SELECT_IPS has no ORDER BY *)
(* and nothing in the statements keeps two rows from being equal.          *)
(***************************************************************************)
\* statement.bind((i, v)) calls in program order; a later bind to the same
\* index replaces the earlier one, an index never bound stays NULL.
Param(binds, i) ==
    LET S == {k \in 1..Len(binds) : binds[k][1] = i}
    IN  IF S = {} THEN NULL
        ELSE binds[CHOOSE k \in S : \A j \in S : j <= k][2]

\* statement.read::<i64>(column): sqlite3_column_int64 yields 0 for NULL
ColumnInt64(v) == IF v = NULL THEN 0 ELSE v

\* the rows of bag tbl that are in keep, a set of rows of tbl
Rows(tbl, keep) == [r \in keep |-> tbl[r]]

\* is_address_saved with id bound to both parameters
is_address_saved_id_twice(tbl, id, ip) ==
    \E r \in BagToSet(tbl) : r.id = id /\ r.ip = id

\* "SELECT * FROM clients WHERE id = ? AND ip = ?" has a row
is_address_saved(tbl, id, ip) ==
    \E r \in BagToSet(tbl) : r.id = id /\ r.ip = ip

\* SQL_INSERT_IP with the binds of save_new_address.  step is what
\* statement.next() returns: "Done", "Row" or "Error" (an Err, which
\* expect("Error in DB") turns into a panic).
save_new_address(tbl, id, ip, signature, port, priority, client, t, step) ==
    LET binds == << <<1, id>>, <<2, ip>>, <<3, signature>>, <<4, port>>,
                    <<5, priority>>, <<6, client>>, <<7, t>>,
                    <<7, DEFAULT_TTL>> >>
        row == [id        |-> Param(binds, 1),
                ip        |-> Param(binds, 2),
                signature |-> Param(binds, 3),
                port      |-> Param(binds, 4),
                priority  |-> Param(binds, 5),
                client    |-> Param(binds, 6),
                timestamp |-> Param(binds, 7),
                ttl       |-> Param(binds, 8)]
        inserted == tbl (+) SetToBag({row})
    IN  IF step = "Error" THEN [panic |-> TRUE, clients |-> tbl, ttl |-> 0]
        ELSE IF step = "Done"
        THEN [panic |-> FALSE, clients |-> inserted, ttl |-> DEFAULT_TTL]
        ELSE [panic |-> FALSE, clients |-> inserted, ttl |-> DEGRADED_TTL]

\* SQL_UPDATE_IP_WHERE without the test of ip
SQL_UPDATE_IP_WHERE_any_ip(r, id, ip, client) ==
    r.id = id /\ r.client = client

\* SQL_UPDATE_IP_WHERE without the test of id
SQL_UPDATE_IP_WHERE_any_id(r, id, ip, client) ==
    r.ip = ip /\ r.client = client

\* the WHERE clause of SQL_UPDATE_IP: "WHERE id=? AND ip=? AND client=?"
SQL_UPDATE_IP_WHERE(r, id, ip, client) ==
    r.id = id /\ r.ip = ip /\ r.client = client

\* SQL_UPDATE_IP with the binds of update_address; step as above
update_address(tbl, id, ip, port, priority, client, t, step) ==
    LET binds == << <<1, port>>, <<2, priority>>, <<3, t>>,
                    <<4, DEFAULT_TTL>>, <<5, id>>, <<6, ip>>, <<7, client>> >>
        Where(r) == SQL_UPDATE_IP_WHERE(r, Param(binds, 5), Param(binds, 6),
                                        Param(binds, 7))
        Set(r) == [r EXCEPT !.port = Param(binds, 1),
                            !.priority = Param(binds, 2),
                            !.timestamp = Param(binds, 3),
                            !.ttl = Param(binds, 4)]
        Change(r) == IF Where(r) THEN Set(r) ELSE r
        updated == BagOfAll(Change, tbl)
    IN  IF step = "Error" THEN [panic |-> TRUE, clients |-> tbl, ttl |-> 0]
        ELSE IF step = "Done"
        THEN [panic |-> FALSE, clients |-> updated, ttl |-> DEFAULT_TTL]
        ELSE [panic |-> FALSE, clients |-> updated, ttl |-> DEGRADED_TTL]

\* Expired with ">=" for ">"
Expired_at_expiry(r, cur_time) ==
    LET time == ColumnInt64(r.timestamp)
        ttl == ColumnInt64(r.ttl)
        expire == time + ttl
    IN  cur_time >= expire

\* the test of the loop of select_addresses: "if cur_time > expire continue"
Expired(r, cur_time) ==
    LET time == ColumnInt64(r.timestamp)
        ttl == ColumnInt64(r.ttl)
        expire == time + ttl
    IN  cur_time > expire

\* Addr { ip, signature, port, priority, client, ttl: 30 }
Addr(r) ==
    [ip |-> r.ip, signature |-> r.signature, port |-> r.port,
     priority |-> r.priority, client |-> r.client, ttl |-> RESOLVE_TTL]

\* SQL_SELECT_IPS and the loop over its rows: the bag of Addr pushed
select_addresses(tbl, id, cur_time) ==
    LET selected == {r \in BagToSet(tbl) : r.id = id}
        pushed == {r \in selected : ~Expired(r, cur_time)}
    IN  BagOfAll(Addr, Rows(tbl, pushed))

\* impl Storage for SqliteStorage.  io.read is what the step of the reading
\* statement returns ("Ok" for State::Row / State::Done, "Error" for an Err,
\* which expect() / unwrap() turn into a panic), io.write what the step of
\* the INSERT or UPDATE returns.  log lists the steps that were executed.
save_address(tbl, id, ip, signature, port, priority, client, t, io) ==
    IF io.read = "Error"
    THEN [panic |-> TRUE, clients |-> tbl, ttl |-> 0, log |-> <<"Error">>]
    ELSE LET w == IF ~is_address_saved(tbl, id, ip)
                  THEN save_new_address(tbl, id, ip, signature, port,
                                        priority, client, t, io.write)
                  ELSE update_address(tbl, id, ip, port, priority, client,
                                      t, io.write)
         IN  [panic |-> w.panic, clients |-> w.clients, ttl |-> w.ttl,
              log |-> <<io.read, io.write>>]

\* get_addresses with the expired rows of the identity deleted on the way
get_addresses_reaping(tbl, id, t, io) ==
    LET kept == {r \in BagToSet(tbl) : r.id # id \/ ~Expired(r, t)}
    IN  IF io.read = "Error"
        THEN [panic |-> TRUE, results |-> EmptyBag, clients |-> tbl,
              log |-> <<"Error">>]
        ELSE [panic |-> FALSE, results |-> select_addresses(tbl, id, t),
              clients |-> Rows(tbl, kept), log |-> <<io.read>>]

\* get_addresses: the records, and the table as the SELECT leaves it
get_addresses(tbl, id, t, io) ==
    IF io.read = "Error"
    THEN [panic |-> TRUE, results |-> EmptyBag, clients |-> tbl,
          log |-> <<"Error">>]
    ELSE [panic |-> FALSE, results |-> select_addresses(tbl, id, t),
          clients |-> tbl, log |-> <<io.read>>]

(***************************************************************************)
(* server.rs                                                               *)
(***************************************************************************)
\* widths in bytes of the fields process_message reads, in order
HeaderFields == <<1, 4, 1, 32>>
RegisterFields == <<2, 1, 4, 16, 64>>

\* Read that compares the position alone with the length
Read_unchecked_width(pos, width, len) ==
    IF pos < 0 THEN -1
    ELSE IF pos > len THEN -1
    ELSE pos + width

\* One read of the Cursor (read_u8, read_u16, read_u32, read_exact): the new
\* position, or -1 for the UnexpectedEof error that "?" returns.
Read(pos, width, len) ==
    IF pos < 0 THEN -1
    ELSE IF pos + width > len THEN -1
    ELSE pos + width

RECURSIVE ReadFields(_, _, _)
ReadFields(widths, pos, len) ==
    IF widths = <<>> THEN pos
    ELSE ReadFields(Tail(widths), Read(pos, Head(widths), len), len)

\* bytes written to the response Cursor
RegisterResponseSize == 4 + 1 + 8
ResolveResponseSize(n) == 4 + 1 + 1 + n * (16 + 64 + 2 + 1 + 4 + 8)

\* A write that does not fit in the slice behind the Cursor is an Err
\* (WriteZero) that "?" returns.
Fits(size) == size <= BUF_SIZE

Result(result, response, tbl, log) ==
    [result |-> result, response |-> response, clients |-> tbl, log |-> log]

\* the value of "response" when process_message returns no size for it
NoResponse == [nonce |-> 0, command |-> 0]

\* Arm with every command other than 0 taken as a resolve
Arm_resolve_by_default(command) ==
    IF command = 0 THEN "register" ELSE "resolve"

\* the arm of "match command" that runs
Arm(command) ==
    IF command = 0 THEN "register"
    ELSE IF command = 1 THEN "resolve"
    ELSE "other"

\* RegisterResponse that leaves the nonce bytes of the buffer as they were
RegisterResponse_stale_nonce(d, ttl) ==
    [nonce |-> 0, command |-> d.command, ttl |-> ttl]

\* RegisterResponse with the ttl of the records of a resolve
RegisterResponse_record_ttl(d, ttl) ==
    [nonce |-> d.nonce, command |-> d.command, ttl |-> RESOLVE_TTL]

\* what the register arm writes: nonce, command, ttl
RegisterResponse(d, ttl) ==
    [nonce |-> d.nonce, command |-> d.command, ttl |-> ttl]

\* what the resolve arm writes: nonce, command, results.len() as u8 and
\* the records
ResolveResponse(d, results) ==
    [nonce |-> d.nonce, command |-> d.command,
     count |-> BagCardinality(results) % 256, records |-> results]

\* process_message(storage, data, response, src) at clock value t
process_message(tbl, d, t, io) ==
    LET header == ReadFields(HeaderFields, 0, d.len)
        payload == ReadFields(RegisterFields, header, d.len)
    IN  IF header < 0 THEN Result("Err", NoResponse, tbl, <<>>)
        ELSE IF Arm(d.command) = "register"
        THEN IF payload < 0 THEN Result("Err", NoResponse, tbl, <<>>)
             ELSE LET ok == check_signature(d.id, d.signature, d.ip)
                      s == save_address(tbl, d.id, d.ip, d.signature, d.port,
                                        d.priority, d.client, t, io)
                  IN  IF ok = "panic"
                      THEN Result("Panic", NoResponse, tbl, <<>>)
                      ELSE IF ok = "false"
                      THEN Result("Err", NoResponse, tbl, <<>>)
                      ELSE IF s.panic
                      THEN Result("Panic", NoResponse, s.clients, s.log)
                      ELSE IF ~Fits(RegisterResponseSize)
                      THEN Result("Err", NoResponse, s.clients, s.log)
                      ELSE Result("Ok", RegisterResponse(d, s.ttl),
                                  s.clients, s.log)
        ELSE IF Arm(d.command) = "resolve"
        THEN LET g == get_addresses(tbl, d.id, t, io)
             IN  IF g.panic THEN Result("Panic", NoResponse, g.clients, g.log)
                 ELSE IF ~Fits(ResolveResponseSize(BagCardinality(g.results)))
                 THEN Result("Err", NoResponse, g.clients, g.log)
                 ELSE Result("Ok", ResolveResponse(d, g.results),
                             g.clients, g.log)
        ELSE Result("Err", NoResponse, tbl, <<>>)

(***************************************************************************)
(* Datagrams the network delivers                                          *)
(***************************************************************************)
HEADER_LEN == ReadFields(HeaderFields, 0, BUF_SIZE)
REGISTER_LEN == ReadFields(RegisterFields, HEADER_LEN, BUF_SIZE)

Datagram(len, src, nonce, command, id, port, priority, client, ip, sig) ==
    [len |-> len, src |-> src, nonce |-> nonce, command |-> command,
     id |-> id, port |-> port, priority |-> priority, client |-> client,
     ip |-> ip, signature |-> sig]

\* complete register requests signed by the holder of the identity
Registers ==
    {Datagram(REGISTER_LEN, src, n, 0, id, e[1], e[2], cl, ip, Sign(id, ip)) :
        src \in Peers, n \in Nonces, id \in {"idA"}, e \in Endpoints,
        cl \in Clients, ip \in Addresses}
    \cup
    {Datagram(REGISTER_LEN, src, n, 0, "idB", 6060, 1, 1, "ip1", sig) :
        src \in Peers, n \in Nonces,
        sig \in {Sign("idB", "ip1"), Resign("idB", "ip1")}}

\* complete register requests that carry a signature made for another
\* address or by another identity, or malformed signature bytes
Forged ==
    {d \in {Datagram(REGISTER_LEN, src, n, 0, id, 6060, 1, 1, ip, sig) :
              src \in Peers, n \in Nonces, id \in GoodKeys, ip \in Addresses,
              sig \in Signatures} :
        ~verify(d.id, d.ip, d.signature)}

\* complete register requests whose identity is no public key
BadKeyed ==
    {Datagram(REGISTER_LEN, src, n, 0, BadKey, 6060, 1, 1, "ip1",
              Sign("idA", "ip1")) : src \in Peers, n \in Nonces}

\* complete resolve requests: the header alone
Resolves ==
    {Datagram(HEADER_LEN, src, n, 1, id, 0, 0, 0, "ip1", BadSig) :
        src \in Peers, n \in Nonces, id \in Identities}

\* command bytes that are neither register nor resolve
UnknownCommands == {2, 255}

\* complete headers with such a command, alone or followed by the bytes of
\* a validly signed register request
Unknowns ==
    {Datagram(len, src, n, c, "idA", 6060, 1, 1, "ip1", Sign("idA", "ip1")) :
        len \in {HEADER_LEN, REGISTER_LEN}, src \in Peers, n \in Nonces,
        c \in UnknownCommands}

\* lengths that cut a register request at or inside a field
TruncatedLengths ==
    {0, 1, 5, 6, 37, HEADER_LEN, 40, 41, 45, 61, REGISTER_LEN - 1}

\* Datagrams shorter than their command needs; the fields past len are the
\* bytes the sender left out.  Below 6 bytes there is no command byte.
Truncated ==
    {Datagram(len, src, n, 0, "idA", 6060, 1, 1, "ip1", Sign("idA", "ip1")) :
        len \in TruncatedLengths, src \in Peers, n \in Nonces}
    \cup
    {Datagram(len, src, n, 1, "idA", 0, 0, 0, "ip1", BadSig) :
        len \in {6, HEADER_LEN - 1}, src \in Peers, n \in Nonces}

Datagrams ==
    Registers \cup Forged \cup BadKeyed \cup Resolves \cup Unknowns
    \cup Truncated

NoFault == [read |-> "Ok", write |-> "Done"]

\* What the environment can make of one turn of the loop on datagram d: a
\* statement step or the send can fail only if the turn gets to it.
Faults(tbl, d, t) ==
    LET r == process_message(tbl, d, t, NoFault)
    IN  {"none"}
        \cup (IF Len(r.log) >= 1 THEN {"read"} ELSE {})
        \cup (IF Len(r.log) >= 2 THEN {"write"} ELSE {})
        \cup (IF r.result = "Ok" THEN {"send"} ELSE {})

IO(fault) ==
    [read  |-> IF fault = "read" THEN "Error" ELSE "Ok",
     write |-> IF fault = "write" THEN "Error" ELSE "Done"]

\* clock advances between datagrams
TickSteps == {DEFAULT_TTL, DEFAULT_TTL + 1}

(***************************************************************************)
(* State machine                                                           *)
(***************************************************************************)
VARIABLES
    pc,        \* position of the server thread
    clients,   \* the rows of the table "clients"
    now,       \* the system clock, get_utc_time()
    req,       \* this turn's datagram: buf[..length] and src
    outcome,   \* what process_message returned for it: "Ok", "Err", "Panic"
    sent,      \* the datagrams handed to socket.send_to in this turn
    sendErr,   \* whether that send_to returned an Err
    dbLog      \* the statement steps executed in this turn

vars == <<pc, clients, now, req, outcome, sent, sendErr, dbLog>>

NoDatagram == Datagram(0, "peer1", 0, 0, "idA", 0, 0, 0, "ip1", BadSig)

Init ==
    /\ pc = "init"
    /\ clients = EmptyBag
    /\ now = StartTime
    /\ req = NoDatagram
    /\ outcome = "None"
    /\ sent = <<>>
    /\ sendErr = FALSE
    /\ dbLog = <<>>

\* Server::start up to the loop: UdpSocket::bind(..).expect(..) ends the
\* thread when the bind fails, before any datagram is received
Start ==
    /\ pc = "init"
    /\ \E bound \in BOOLEAN : pc' = IF bound THEN "recv" ELSE "fatal"
    /\ UNCHANGED <<clients, now, req, outcome, sent, sendErr, dbLog>>

\* Reply that answers an Err of process_message too
Reply_on_error(d, r) ==
    IF r.result = "Panic" THEN <<>>
    ELSE <<[to |-> d.src, data |-> r.response]>>

\* The match on the Result of process_message: on Ok(size) one send_to of
\* response[..size] to src, on Err a println.
Reply(d, r) ==
    IF r.result = "Ok" THEN <<[to |-> d.src, data |-> r.response]>>
    ELSE <<>>

\* The body of the loop of Server::start on datagram d: process_message
\* and, on Ok(size), send_to.  A panic inside process_message ends the
\* thread.
Serve(d) ==
    \E fault \in Faults(clients, d, now) :
        LET r == process_message(clients, d, now, IO(fault))
        IN  /\ req' = d
            /\ outcome' = r.result
            /\ clients' = r.clients
            /\ dbLog' = r.log
            /\ sent' = Reply(d, r)
            /\ sendErr' = (r.result = "Ok" /\ fault = "send")
            /\ pc' = IF r.result = "Panic" THEN "panicked" ELSE "done"

\* recv_from returns one of the datagrams and the loop body runs on it
Receive ==
    /\ pc = "recv"
    /\ \E d \in Datagrams : Serve(d)
    /\ UNCHANGED now

\* The end of the loop body: length, src and the Result go out of scope and
\* the thread is back in recv_from.
EndTurn ==
    /\ pc = "done"
    /\ pc' = "recv"
    /\ req' = NoDatagram
    /\ outcome' = "None"
    /\ sent' = <<>>
    /\ sendErr' = FALSE
    /\ dbLog' = <<>>
    /\ UNCHANGED <<clients, now>>

\* the system clock advances while the thread waits in recv_from
Tick ==
    /\ pc = "recv"
    /\ \E step \in TickSteps :
         /\ now + step <= StartTime + MaxElapsed
         /\ now' = now + step
    /\ UNCHANGED <<pc, clients, req, outcome, sent, sendErr, dbLog>>

Next == Start \/ Receive \/ EndTurn \/ Tick

Spec == Init /\ [][Next]_vars

(***************************************************************************)
(* A multi-homed identity: one client that announces the addresses of      *)
(* "idA" one after the other, each address again once it is stored, and    *)
(* resolves the identity in between.                                       *)
(***************************************************************************)
\* number of addresses the identity announces
MaxHomes == 11

Homes ==
    <<"home01", "home02", "home03", "home04", "home05", "home06",
      "home07", "home08", "home09", "home10", "home11", "home12">>

\* the announced addresses that have a row
SavedHomes(tbl) ==
    {k \in 1..MaxHomes : is_address_saved(tbl, "idA", Homes[k])}

\* the announced addresses whose row has been written by update_address
RefreshedHomes(tbl) ==
    {k \in 1..MaxHomes :
        \E r \in BagToSet(tbl) :
            r.id = "idA" /\ r.ip = Homes[k] /\ r.ttl = DEFAULT_TTL}

\* The datagrams of that client when the table is tbl: a register of the
\* address announced last, or of the next one once the last one has been
\* registered twice, or a resolve of the identity
HomeDatagrams(tbl) ==
    LET n == Cardinality(SavedHomes(tbl))
        m == Cardinality(RefreshedHomes(tbl))
    IN  {Datagram(REGISTER_LEN, "peer1", 7, 0, "idA", DEFAULT_PORT, 0, 1,
                  Homes[k], Sign("idA", Homes[k])) :
            k \in {n, m + 1} \cap (1..MaxHomes)}
        \cup {Datagram(HEADER_LEN, "peer1", 7, 1, "idA", 0, 0, 0, "ip1",
                       BadSig)}

\* recv_from returns one of the datagrams of that client
ReceiveHomes ==
    /\ pc = "recv"
    /\ \E d \in HomeDatagrams(clients) : Serve(d)
    /\ UNCHANGED now

NextHomes == Start \/ ReceiveHomes \/ EndTurn \/ Tick

SpecHomes == Init /\ [][NextHomes]_vars

(***************************************************************************)
(* Properties                                                              *)
(***************************************************************************)
\* the turn of the loop that has just run: Receive took the step
Turn == pc = "recv" /\ pc' # "recv"
\* a turn has run and its datagram is req
Handled == pc \in {"done", "panicked"}

\* d carries all the fields of a register request
CompleteRegister(d) ==
    d.command = 0 /\ d.len >= (1 + 4 + 1 + 32) + (2 + 1 + 4 + 16 + 64)
\* the signature of d is the one the identity of d made over its address
ValidlySigned(d) == verify(d.id, d.ip, d.signature)
\* registeredAt and ttlSeconds of a row as integers (NULL counts as 0)
RegisteredAt(r) == IF r.timestamp = NULL THEN 0 ELSE r.timestamp
TtlSeconds(r) == IF r.ttl = NULL THEN 0 ELSE r.ttl
\* the rows stored for (id, ip)
RowsOf(tbl, id, ip) ==
    [r \in {x \in BagToSet(tbl) : x.id = id /\ x.ip = ip} |-> tbl[r]]
\* the records the live rows of identity id give at clock value t
LiveRecords(tbl, id, t) ==
    LET live == {r \in BagToSet(tbl) :
                   r.id = id /\ t <= RegisteredAt(r) + TtlSeconds(r)}
    IN  BagOfAll(Addr, [r \in live |-> tbl[r]])

\* C1: a register request whose signature verifies and that is answered,
\* the first one for its pair included, is followed by a get_addresses for
\* its identity that holds a record with its address and port.
C1_RegisteredIsResolved ==
    (pc = "done" /\ CompleteRegister(req) /\ ValidlySigned(req)
       /\ outcome = "Ok")
    => \E a \in BagToSet(select_addresses(clients, req.id, now)) :
          a.ip = req.ip /\ a.port = req.port

\* C2: at every clock value get_addresses(identity) is exactly the stored
\* rows of the identity with now <= registeredAt + ttlSeconds, and that is
\* what a resolve response carries.
C2_OnlyLiveRowsReturned ==
    /\ \A id \in Identities :
         select_addresses(clients, id, now) = LiveRecords(clients, id, now)
    /\ (pc = "done" /\ req.command = 1 /\ outcome = "Ok")
       => sent[1].data.records = LiveRecords(clients, req.id, now)

\* C2 witness: a resolve answered with a row that is exactly at its expiry
\* while another row of the identity is past it.
C2_Witness ==
    /\ pc = "done" /\ req.command = 1 /\ outcome = "Ok"
    /\ \E r \in BagToSet(clients) :
         /\ r.id = req.id /\ r.ttl = DEFAULT_TTL
         /\ now = r.timestamp + r.ttl
         /\ BagIn(Addr(r), sent[1].data.records)
    /\ \E r \in BagToSet(clients) :
         /\ r.id = req.id
         /\ now > RegisteredAt(r) + TtlSeconds(r)
         /\ ~BagIn(Addr(r), sent[1].data.records)

\* C3: a complete register request whose signature does not verify leaves
\* the table unchanged and is not answered.
C3_BadSignatureRejected ==
    [][(Turn /\ CompleteRegister(req') /\ ~ValidlySigned(req'))
         => (clients' = clients /\ sent' = <<>>)]_vars

\* C3 witness: a signature made for another address was rejected while the
\* table held a row for the pair.
C3_Witness ==
    /\ pc = "done" /\ CompleteRegister(req) /\ outcome = "Err"
    /\ \E other \in Addresses \ {req.ip} :
         req.signature = Sign(req.id, other)
    /\ is_address_saved(clients, req.id, req.ip)

\* C4: a validly signed register request for a pair that has a row sets the
\* row's port and priority to the request's, registeredAt to now and
\* ttlSeconds to 86400, whatever clientTag it carries, and get_addresses
\* then returns one record for the pair, with the new port and priority.
C4_ReRegisterUpdates ==
    [][(Turn /\ CompleteRegister(req') /\ ValidlySigned(req')
          /\ outcome' = "Ok" /\ is_address_saved(clients, req'.id, req'.ip))
         => /\ \A r \in BagToSet(RowsOf(clients', req'.id, req'.ip)) :
                 /\ r.port = req'.port
                 /\ r.priority = req'.priority
                 /\ r.timestamp = now'
                 /\ r.ttl = DEFAULT_TTL
            /\ LET got == select_addresses(clients', req'.id, now')
                   found == [a \in {x \in BagToSet(got) : x.ip = req'.ip}
                               |-> got[a]]
               IN  /\ BagCardinality(found) = 1
                   /\ \A a \in BagToSet(found) :
                        a.port = req'.port /\ a.priority = req'.priority
       ]_vars

\* C5: the table never holds two rows for one (identity, address) pair.
C5_OneRowPerPair ==
    \A id \in Identities, ip \in Addresses :
        BagCardinality(RowsOf(clients, id, ip)) <= 1

\* C5 witness: a second registration of a pair was stored while the table
\* held another pair too.
C5_Witness ==
    /\ pc = "done" /\ CompleteRegister(req) /\ outcome = "Ok"
    /\ dbLog = <<"Ok", "Done">>
    /\ \E r \in BagToSet(RowsOf(clients, req.id, req.ip)) :
         r.ttl = DEFAULT_TTL /\ r.timestamp = now
    /\ BagCardinality(clients) >= 2

\* C6: when the rows of a pair have expired, a validly signed register
\* request for the pair whose statements complete is answered and the pair
\* is returned by get_addresses right after it, whatever port, priority and
\* clientTag it carries.
C6_ExpiredPairRegistersAgain ==
    [][(Turn /\ CompleteRegister(req') /\ ValidlySigned(req')
          /\ dbLog' = <<"Ok", "Done">>
          /\ is_address_saved(clients, req'.id, req'.ip)
          /\ \A r \in BagToSet(RowsOf(clients, req'.id, req'.ip)) :
               RegisteredAt(r) + TtlSeconds(r) < now)
         => /\ outcome' = "Ok"
            /\ \E a \in BagToSet(select_addresses(clients', req'.id, now')) :
                 a.ip = req'.ip
       ]_vars

\* C7: no datagram ends the loop: after every turn the thread is at the end
\* of the loop body or back in recv_from; only a failed bind stops it.
C7_LoopSurvivesEveryDatagram ==
    /\ pc \in {"init", "fatal", "recv", "done"}
    /\ pc = "fatal" => outcome = "None"

\* C8: check_signature returns false, and does not panic, on key bytes or
\* signature bytes that are malformed.
C8_MalformedIsFalse ==
    (Handled /\ CompleteRegister(req)
       /\ (~PublicKey_from_bytes(req.id)
             \/ ~Signature_from_bytes(req.signature)))
    => check_signature(req.id, req.signature, req.ip) = "false"

\* C9: a datagram shorter than the fields its command requires (a register
\* request cut anywhere before the end of its signature included) leaves
\* the table unchanged and is not answered.
C9_TruncatedDropped ==
    [][(Turn /\ (\/ req'.len < 1 + 4 + 1 + 32
                 \/ /\ req'.command = 0
                    /\ req'.len < (1 + 4 + 1 + 32) + (2 + 1 + 4 + 16 + 64)))
         => (clients' = clients /\ sent' = <<>> /\ outcome' = "Err")]_vars

\* C9 witness: a validly signed register request one byte short of its
\* signature was dropped.
C9_Witness ==
    /\ pc = "done" /\ req.command = 0 /\ ValidlySigned(req)
    /\ req.len = (1 + 4 + 1 + 32) + (2 + 1 + 4 + 16 + 64) - 1
    /\ outcome = "Err" /\ sent = <<>>
    /\ BagCardinality(clients) >= 1

\* C10: when the INSERT or UPDATE of save_address does not complete, the
\* turn does not panic and the response sent carries the TTL 300.
C10_WriteFailureDegradesTtl ==
    (Handled /\ Len(dbLog) = 2 /\ dbLog[2] = "Error")
    => /\ outcome = "Ok"
       /\ Len(sent) = 1
       /\ sent[1].data.ttl = DEGRADED_TTL

\* number of records a response of BUF_SIZE bytes has room for
Capacity == (BUF_SIZE - (4 + 1 + 1)) \div (16 + 64 + 2 + 1 + 4 + 8)

\* number of bytes of a response as process_message writes it
EncodedSize(data) ==
    IF data.command = 1
    THEN ResolveResponseSize(BagCardinality(data.records))
    ELSE RegisterResponseSize

\* C11: no response is longer than the 1024 bytes of the buffer, and a
\* resolve of an identity with more live records than the buffer has room
\* for is answered with as many of them as fit, the count byte being that
\* number.
C11_TruncatedToBuffer ==
    /\ \A i \in 1..Len(sent) : EncodedSize(sent[i].data) <= BUF_SIZE
    /\ (pc = "done" /\ req.command = 1 /\ req.len >= 1 + 4 + 1 + 32
          /\ dbLog = <<"Ok">>
          /\ BagCardinality(LiveRecords(clients, req.id, now)) > Capacity)
       => /\ outcome = "Ok"
          /\ Len(sent) = 1
          /\ sent[1].data.count = Capacity
          /\ BagCardinality(sent[1].data.records) = Capacity
          /\ sent[1].data.records \sqsubseteq
                LiveRecords(clients, req.id, now)

\* C12: every datagram handed to send_to begins with the nonce and the
\* command byte of the request of its turn, and that command is register
\* (0) or resolve (1).
C12_NonceAndCommandEchoed ==
    \A i \in 1..Len(sent) :
        /\ sent[i].data.nonce = req.nonce
        /\ sent[i].data.command = req.command
        /\ req.command \in {0, 1}

\* C12 witness: a register with the largest nonce of the model answered
\* with that nonce and command 0.
C12_Witness ==
    /\ pc = "done" /\ outcome = "Ok"
    /\ req.command = 0 /\ req.nonce = 2147483647
    /\ Len(sent) = 1
    /\ sent[1].data.nonce = 2147483647 /\ sent[1].data.command = 0

\* C13: a register whose signature verifies and whose statement steps
\* complete (the row test and the INSERT or UPDATE) is answered with exactly
\* one datagram, a register response with ttl 86400, whether the pair was
\* new or already stored.
C13_AcceptedRegisterGetsDefaultTtl ==
    (Handled /\ CompleteRegister(req) /\ ValidlySigned(req)
       /\ dbLog = <<"Ok", "Done">>)
    => /\ pc = "done" /\ outcome = "Ok"
       /\ Len(sent) = 1
       /\ sent[1].to = req.src
       /\ sent[1].data = [nonce |-> req.nonce, command |-> 0,
                          ttl |-> DEFAULT_TTL]

\* C13 witness: the update path answered with 86400, on a row that the
\* insert path had written at an earlier clock value.
C13_Witness ==
    /\ pc = "done" /\ CompleteRegister(req) /\ ValidlySigned(req)
    /\ dbLog = <<"Ok", "Done">>
    /\ now > StartTime
    /\ sent[1].data.ttl = DEFAULT_TTL
    /\ \E r \in BagToSet(clients) :
         /\ r.id = req.id /\ r.ip = req.ip
         /\ r.timestamp = now /\ r.ttl = DEFAULT_TTL
    /\ \E r \in BagToSet(clients) :
         r.id = req.id /\ r.ip # req.ip /\ r.ttl = NULL

\* C14: a datagram with a complete header whose command byte is neither 0
\* nor 1 gets no response and leaves the table as it was, whatever the
\* command value and whatever follows the header; no statement is stepped.
C14_UnknownCommandDropped ==
    [][(Turn /\ req'.len >= 1 + 4 + 1 + 32 /\ req'.command \notin {0, 1})
        => /\ clients' = clients
           /\ sent' = <<>>
           /\ outcome' = "Err"
           /\ dbLog' = <<>>
           /\ pc' = "done"]_vars

\* C14 witness: command 255 followed by the bytes of a validly signed
\* register request has been dropped while the table holds rows.
C14_Witness ==
    /\ pc = "done" /\ req.command = 255
    /\ req.len = (1 + 4 + 1 + 32) + (2 + 1 + 4 + 16 + 64)
    /\ ValidlySigned(req)
    /\ outcome = "Err" /\ sent = <<>>
    /\ clients # EmptyBag

\* C15: a register that passes the signature check for a pair with no row
\* adds exactly one row, which holds the identity, address, signature,
\* port, priority and clientTag of the request, registeredAt = the clock
\* value of the turn and ttlSeconds = 86400.
C15_InsertStoresTimeAndTtl ==
    [][(Turn /\ CompleteRegister(req') /\ ValidlySigned(req')
          /\ dbLog' = <<"Ok", "Done">>
          /\ ~is_address_saved(clients, req'.id, req'.ip))
        => clients' = clients (+) SetToBag({
               [id        |-> req'.id,
                ip        |-> req'.ip,
                signature |-> req'.signature,
                port      |-> req'.port,
                priority  |-> req'.priority,
                client    |-> req'.client,
                timestamp |-> now,
                ttl       |-> DEFAULT_TTL]})]_vars

\* the columns of a row that SQL_UPDATE_IP does not set
KeptColumns(r) ==
    [id |-> r.id, ip |-> r.ip, signature |-> r.signature,
     client |-> r.client]
\* the rows stored for another pair than (id, ip)
RowsElsewhere(tbl, id, ip) ==
    [r \in {x \in BagToSet(tbl) : x.id # id \/ x.ip # ip} |-> tbl[r]]

\* C16: a register that passes the signature check for a pair that has a
\* row leaves every row of every other pair as it was, and leaves identity,
\* address, signature and clientTag of the rows of its pair as they were:
\* only port, priority, registeredAt and ttlSeconds of those may change.
C16_UpdateKeepsTagAndSignature ==
    [][(Turn /\ CompleteRegister(req') /\ ValidlySigned(req')
          /\ is_address_saved(clients, req'.id, req'.ip))
        => /\ RowsElsewhere(clients', req'.id, req'.ip)
                = RowsElsewhere(clients, req'.id, req'.ip)
           /\ BagOfAll(KeptColumns, RowsOf(clients', req'.id, req'.ip))
                = BagOfAll(KeptColumns, RowsOf(clients, req'.id, req'.ip))
       ]_vars

\* C16 witness: the update path has rewritten the row of a pair whose
\* request carries another valid signature than the stored one, while a row
\* of another pair holds the clientTag of the request.
C16_Witness ==
    /\ pc = "done" /\ CompleteRegister(req) /\ ValidlySigned(req)
    /\ dbLog = <<"Ok", "Done">>
    /\ \E r \in BagToSet(clients) :
         /\ r.id = req.id /\ r.ip = req.ip
         /\ r.timestamp = now /\ r.ttl = DEFAULT_TTL
         /\ r.signature # req.signature
    /\ \E r \in BagToSet(clients) :
         /\ r.id # req.id /\ r.ip = req.ip /\ r.client = req.client
         /\ r.timestamp # now

\* the (identity, address) pairs that have a row
StoredPairs(tbl) == {<<r.id, r.ip>> : r \in BagToSet(tbl)}

\* C17: no step removes a row.  The pairs that have a row and the number of
\* rows never shrink; the table changes in no step other than the turn of
\* a validly signed register, so a resolve leaves it as it was even when it
\* skips expired rows; and a row, expired or not, stays as it is until a
\* register for its own pair rewrites it.
C17_RowsAreNeverRemoved ==
    [][/\ StoredPairs(clients) \subseteq StoredPairs(clients')
       /\ BagCardinality(clients') >= BagCardinality(clients)
       /\ ~(Turn /\ CompleteRegister(req') /\ ValidlySigned(req'))
            => clients' = clients
       /\ \A r \in BagToSet(clients) :
            \/ CopiesIn(r, clients') >= CopiesIn(r, clients)
            \/ /\ Turn /\ CompleteRegister(req')
               /\ req'.id = r.id /\ req'.ip = r.ip
      ]_vars

\* C17 witness: a resolve has been answered without a row that had been
\* live and has expired, and the row is still in the table.
C17_Witness ==
    /\ pc = "done" /\ req.command = 1 /\ outcome = "Ok"
    /\ \E r \in BagToSet(clients) :
         /\ r.id = req.id /\ r.ttl = DEFAULT_TTL
         /\ now > r.timestamp + r.ttl
         /\ ~BagIn(Addr(r), sent[1].data.records)

\* C18: at every moment the signature of every stored row verifies over
\* the address of the row under the identity of the row, and so does the
\* signature of every record of a resolve response, under the identity that
\* was resolved.
C18_StoredSignaturesVerify ==
    /\ \A r \in BagToSet(clients) :
         /\ PublicKey_from_bytes(r.id) /\ Signature_from_bytes(r.signature)
         /\ verify(r.id, r.ip, r.signature)
    /\ \A i \in 1..Len(sent) :
         sent[i].data.command = 1
         => \A a \in BagToSet(sent[i].data.records) :
               /\ PublicKey_from_bytes(req.id)
               /\ Signature_from_bytes(a.signature)
               /\ verify(req.id, a.ip, a.signature)

\* C18 witness: a resolve answered with a record that carries the second
\* signature of its identity over its address, from a table of several
\* rows.
C18_Witness ==
    /\ pc = "done" /\ req.command = 1 /\ outcome = "Ok"
    /\ sent[1].data.count >= 1
    /\ \E a \in BagToSet(sent[1].data.records) :
         a.signature = Resign(req.id, a.ip)
    /\ BagCardinality(clients) >= 2

\* C19: a turn hands at most one datagram to send_to, only for a request
\* that process_message returned Ok for, addressed to the source of that
\* request.  Nothing is sent outside a turn, nothing for a request that
\* ended in Err or in a panic, and a failed send is not repeated.
C19_AtMostOneReplyToSource ==
    /\ Len(sent) <= 1
    /\ sent # <<>>
       => /\ pc = "done" /\ outcome = "Ok"
          /\ req.command \in {0, 1}
          /\ sent[1].to = req.src
    /\ pc \in {"init", "recv", "fatal", "panicked"} => sent = <<>>
    /\ outcome \in {"None", "Err", "Panic"} => sent = <<>>
    /\ sendErr => Len(sent) = 1

\* C19 witness: the send of the response to the second peer failed and the
\* turn ended with that one send.
C19_Witness ==
    /\ pc = "done" /\ outcome = "Ok" /\ sendErr
    /\ req.src = "peer2"
    /\ Len(sent) = 1 /\ sent[1].to = "peer2"

\* the rows stored under identity id
RowsOfIdentity(tbl, id) ==
    [r \in {x \in BagToSet(tbl) : x.id = id} |-> tbl[r]]

\* C20: the turn of a register request for identity X, whether it is
\* accepted, turned down, cut short or ends in a panic, leaves the rows of
\* every other identity Y as they were, and get_addresses(Y) gives after
\* the turn what it gave before it.
C20_IdentitiesIsolated ==
    [][(Turn /\ req'.command = 0)
        => \A y \in Identities \ {req'.id} :
              /\ RowsOfIdentity(clients', y) = RowsOfIdentity(clients, y)
              /\ select_addresses(clients', y, now')
                   = select_addresses(clients, y, now)]_vars

\* C20 witness: the update path has rewritten a row of idA while idB has a
\* live row with the same address and clientTag and another port.
C20_Witness ==
    /\ pc = "done" /\ CompleteRegister(req) /\ ValidlySigned(req)
    /\ req.id = "idA" /\ dbLog = <<"Ok", "Done">>
    /\ \E r \in BagToSet(clients) :
         /\ r.id = "idA" /\ r.ip = req.ip /\ r.client = req.client
         /\ r.timestamp = now /\ r.ttl = DEFAULT_TTL
    /\ \E q \in BagToSet(clients) :
         /\ q.id = "idB" /\ q.ip = req.ip /\ q.client = req.client
         /\ q.port # req.port
         /\ BagIn(Addr(q), select_addresses(clients, "idB", now))
====
